---- MODULE Spec2Model ----
(***************************************************************************)
(* Character-level GPT notebook (seminars/seminar-9-gpt/transformers.ipynb) *)
(* modelled as state machines: the tokenizer / split / batch sampler cells, *)
(* one causal attention head, model construction with the forward pass,    *)
(* the autoregressive generate loop, the training loop with its loss       *)
(* estimator, and the forward pass by value on a two-wide network.         *)
(*                                                                         *)
(* Tensors are modelled by their integer contents (token tensors) or by    *)
(* their shape (float tensors); softmax weights are exact rationals        *)
(* <<numerator, denominator>> with exp(-inf) = 0.                          *)
(***************************************************************************)
EXTENDS Integers, Sequences, FiniteSets, TLC

\* ---------------------------------------------------------------- bounds
NumSym       == 3    \* size of the alphabet corpora and strings are drawn from
MaxText      == 12   \* largest corpus length
MaxStr       == 2    \* longest string handed to encode / list handed to decode
MaxBlock     == 2    \* largest context length (block_size)
MaxBatch     == 2    \* largest batch size
MaxEmbd      == 3    \* largest embedding width (n_embd)
MaxHeads     == 4    \* largest head count (n_head)
MaxVocab     == 2    \* largest vocabulary handed to the model
MaxPrompt    == 2    \* longest prompt handed to generate
MaxNew       == 2    \* largest max_new_tokens
MaxIters     == 3    \* largest max_iters
MaxInterval  == 2    \* largest eval_interval
MaxEvalIters == 2    \* largest eval_iters

\* symbols are code points, 'a' = 97 onwards
Alphabet     == 97 .. (96 + NumSym)

VARIABLES
  \* hyperparameters (notebook globals)
  block_size, batch_size, n_embd, n_head,
  \* tokenizer / dataset cells
  text, chars, vocab_size, stoi, itos, data, n, train_data, val_data,
  pc,       \* which cell of the data pipeline runs next
  call,     \* the most recent call of encode / decode / get_batch and its result
  \* the language model
  model,    \* the constructed GPTLanguageModel (widths of its layers)
  training, \* nn.Module.training: dropout is active
  \* one attention head (Head.forward)
  head_T,   \* T of the input x of shape (B, T, C)
  head_q,   \* query(x), one scalar per position (head_size 1)
  head_k,   \* key(x), one scalar per position
  wei,      \* the attention matrix, row = query position, column = key position
  head_pc,  \* the statement of Head.forward that runs next
  \* a call of GPTLanguageModel.forward
  fwd,      \* the arguments and the returned (logits, loss) of the last call
  \* GPTLanguageModel.generate
  prompt,           \* the idx argument
  max_new_tokens,   \* the max_new_tokens argument
  idx,              \* the running sequence, one row of tokens per batch row
  idx_cond,         \* the input of the last forward pass of the loop
  gen_k,            \* loop iterations completed
  gen_pc,           \* "idle", "loop", "returned" or the fault that ended the call
  \* training loop and estimate_loss
  max_iters, eval_interval, eval_iters,
  range_i,  \* position of the iterator of range(max_iters)
  iter,     \* the loop variable
  tr_pc,    \* the statement of the training cell that runs next
  est,      \* the frame of estimate_loss: split, k, X/Y, losses, out
  xb,       \* xb, yb: the batch of the current training iteration
  loss,     \* the loss returned by model(xb, yb)
  grad,     \* the .grad of the parameters: the loss it was computed from
  params,   \* the parameters, as the number of optimizer updates applied
  losses,   \* losses = estimate_loss(): the last report
  \* the forward pass by value, on two inputs side by side
  runs,     \* per input: idx (one row), the activations x, the logits
  val_pc    \* the statement of forward that runs next on both

hpVars   == <<block_size, batch_size, n_embd, n_head>>
tokVars  == <<text, chars, vocab_size, stoi, itos, data, n, train_data, val_data, pc, call>>
modelVars == <<model, training>>
headVars == <<head_T, head_q, head_k, wei, head_pc>>
genVars  == <<prompt, max_new_tokens, idx, idx_cond, gen_k, gen_pc>>
evalHp   == <<max_iters, eval_interval, eval_iters>>
trainVars == <<evalHp, range_i, iter, tr_pc, est, xb, loss, grad, params, losses>>
valVars  == <<runs, val_pc>>
vars     == <<hpVars, tokVars, modelVars, headVars, fwd, genVars, trainVars, valVars>>

\* what the data cells, the head and the model leave alone
nonTok   == <<modelVars, headVars, fwd, genVars, trainVars, valVars>>
nonHead  == <<hpVars, tokVars, model, fwd, genVars, trainVars, valVars>>
nonModel == <<hpVars, tokVars, headVars, trainVars, valVars>>
nonTrain == <<hpVars, tokVars, model, headVars, fwd, genVars, valVars>>
nonVal   == <<hpVars, tokVars, modelVars, headVars, fwd, genVars, trainVars>>

\* ---------------------------------------------------------------- helpers
Range(s) == { s[i] : i \in DOMAIN s }

SeqsUpTo(S, k) == UNION { [1..m -> S] : m \in 0..k }

Min(S) == CHOOSE m \in S : \A x \in S : m <= x

\* Python's a[lo:hi] on a sequence, 0-based, for 0 <= lo: indices past the end
\* are clamped, an empty range gives the empty sequence.
Slice(a, lo, hi) ==
  LET h == IF hi > Len(a) THEN Len(a) ELSE hi
      l == IF lo > h THEN h ELSE lo
  IN  [i \in 1..(h - l) |-> a[l + i]]

\* sorted(list(set(text)))
RECURSIVE SortSet(_)
SortSet(S) == IF S = {} THEN <<>>
              ELSE LET m == Min(S) IN <<m>> \o SortSet(S \ {m})

\* the corpus of length L that repeats the pair of symbols p ("abab...")
Corpus(p, L) == [i \in 1..L |-> p[((i - 1) % Len(p)) + 1]]

Corpora == { Corpus(p, L) : p \in (Alphabet \X Alphabet), L \in 0..MaxText }

NoCall == [op |-> "none", arg |-> <<>>, fault |-> "none", out |-> <<>>, ix |-> <<>>]

\* ---------------------------------------------------------------- tokenizer
\* chars = sorted(list(set(text)))
BuildChars(t) == SortSet(Range(t))

\* variant: the indices start at 1 (enumerate(chars, 1))
BuildStoiFromOne(cs) ==
  [ch \in Range(cs) |-> CHOOSE i \in DOMAIN cs : cs[i] = ch]

\* stoi = { ch:i for i,ch in enumerate(chars) }   (a later duplicate key wins)
BuildStoi(cs) ==
  [ch \in Range(cs) |->
     (CHOOSE i \in DOMAIN cs : cs[i] = ch /\ \A j \in DOMAIN cs : cs[j] = ch => j <= i) - 1]

\* variant: the indices start at 1 (enumerate(chars, 1))
BuildItosFromOne(cs) == [i \in 1..Len(cs) |-> cs[i]]

\* itos = { i:ch for i,ch in enumerate(chars) }
BuildItos(cs) == [i \in 0..(Len(cs) - 1) |-> cs[i + 1]]

\* variant: unknown symbols are skipped ([stoi[c] for c in s if c in stoi])
encodeSkipUnknown(s) ==
  [fault |-> "none",
   out |-> LET known == SelectSeq(s, LAMBDA c : c \in DOMAIN stoi)
           IN  [i \in DOMAIN known |-> stoi[known[i]]]]

\* encode = lambda s: [stoi[c] for c in s]; stoi[c] raises KeyError for a
\* symbol that is not a key, and the comprehension then yields nothing.
encode(s) ==
  IF \E i \in DOMAIN s : s[i] \notin DOMAIN stoi
  THEN [fault |-> "KeyError", out |-> <<>>]
  ELSE [fault |-> "none", out |-> [i \in DOMAIN s |-> stoi[s[i]]]]

\* decode = lambda l: ''.join([itos[i] for i in l])
decode(l) ==
  IF \E i \in DOMAIN l : l[i] \notin DOMAIN itos
  THEN [fault |-> "KeyError", out |-> <<>>]
  ELSE [fault |-> "none", out |-> [i \in DOMAIN l |-> itos[l[i]]]]

\* variant: the validation split is the truncated tenth (len - int(0.1*len))
SplitPointValFirst(L) == L - (L \div 10)

\* n = int(0.9*len(data)): the double product truncated; for every length
\* below 2^49 this is floor(9*len/10).
SplitPoint(L) == (9 * L) \div 10

\* cell: chars, vocab_size
BuildVocab ==
  /\ pc = "vocab"
  /\ chars' = BuildChars(text)
  /\ vocab_size' = Len(BuildChars(text))
  /\ pc' = "maps"
  /\ UNCHANGED <<text, stoi, itos, data, n, train_data, val_data, call, hpVars, nonTok>>

\* cell: stoi, itos, encode, decode
BuildMaps ==
  /\ pc = "maps"
  /\ stoi' = BuildStoi(chars)
  /\ itos' = BuildItos(chars)
  /\ pc' = "encode_text"
  /\ UNCHANGED <<text, chars, vocab_size, data, n, train_data, val_data, call, hpVars, nonTok>>

\* cell: data = torch.tensor(encode(text))
EncodeCorpus ==
  /\ pc = "encode_text"
  /\ call.op = "none"
  /\ encode(text).fault = "none"
  /\ data' = encode(text).out
  /\ pc' = "split"
  /\ UNCHANGED <<text, chars, vocab_size, stoi, itos, n, train_data, val_data, call, hpVars, nonTok>>

\* cell: n, train_data, val_data
SplitData ==
  /\ pc = "split"
  /\ n' = SplitPoint(Len(data))
  /\ train_data' = Slice(data, 0, SplitPoint(Len(data)))
  /\ val_data' = Slice(data, SplitPoint(Len(data)), Len(data))
  /\ pc' = "hyperparameters"
  /\ UNCHANGED <<text, chars, vocab_size, stoi, itos, data, call, hpVars, nonTok>>

\* cell: hyperparameters
SetHyperparameters(bs, b, e, h) ==
  /\ pc = "hyperparameters"
  /\ block_size' = bs
  /\ batch_size' = b
  /\ n_embd' = e
  /\ n_head' = h
  /\ pc' = "ready"
  /\ UNCHANGED <<text, chars, vocab_size, stoi, itos, data, n, train_data, val_data, call, nonTok>>

\* print(encode(s))
EncodeCall(s) ==
  /\ pc = "encode_text"
  /\ call.op = "none"
  /\ call' = [op |-> "encode", arg |-> s, fault |-> encode(s).fault,
              out |-> encode(s).out, ix |-> <<>>]
  /\ UNCHANGED <<text, chars, vocab_size, stoi, itos, data, n, train_data, val_data, pc, hpVars, nonTok>>

\* print(decode(l))
DecodeCall(l) ==
  /\ pc = "encode_text"
  /\ call.op = "none"
  /\ call' = [op |-> "decode", arg |-> l, fault |-> decode(l).fault,
              out |-> decode(l).out, ix |-> <<>>]
  /\ UNCHANGED <<text, chars, vocab_size, stoi, itos, data, n, train_data, val_data, pc, hpVars, nonTok>>

\* print(decode(encode(s)))
RoundTripCall(s) ==
  /\ pc = "encode_text"
  /\ call.op = "none"
  /\ LET e == encode(s)
         d == IF e.fault = "none" THEN decode(e.out) ELSE e
     IN  call' = [op |-> "decode_encode", arg |-> s, fault |-> d.fault,
                  out |-> d.out, ix |-> <<>>]
  /\ UNCHANGED <<text, chars, vocab_size, stoi, itos, data, n, train_data, val_data, pc, hpVars, nonTok>>

\* ---------------------------------------------------------------- batch sampler
\* variant: every split reads the whole encoded corpus
SplitOfWhole(split) == data

\* data = train_data if split == 'train' else val_data
SplitOf(split) == IF split = "train" THEN train_data ELSE val_data

\* variant: the last window start is allowed (len(data) - block_size + 1)
RandintHighInclusive(d) == Len(d) - block_size + 1

\* the bound handed to torch.randint: len(data) - block_size
RandintHigh(d) == Len(d) - block_size

\* torch.randint(high, (size,)): every draw of size offsets in [0, high);
\* a RuntimeError when high <= 0 (no draw at all).
Randint(high, size) == IF high <= 0 THEN {} ELSE [1..size -> 0..(high - 1)]

\* torch.stack of rows: all rows must have one length
Stackable(rows) == \A i, j \in DOMAIN rows : Len(rows[i]) = Len(rows[j])

BatchX(d, ix) == [i \in DOMAIN ix |-> Slice(d, ix[i], ix[i] + block_size)]
BatchY(d, ix) == [i \in DOMAIN ix |-> Slice(d, ix[i] + 1, ix[i] + block_size + 1)]

GetBatchOk(split, ix) ==
  LET d == SplitOf(split) IN
  /\ pc = "ready"
  /\ call.op = "none"
  /\ ix \in Randint(RandintHigh(d), batch_size)
  /\ call' = IF Stackable(BatchX(d, ix)) /\ Stackable(BatchY(d, ix))
             THEN [op |-> "get_batch", arg |-> split, fault |-> "none",
                   out |-> <<BatchX(d, ix), BatchY(d, ix)>>, ix |-> ix]
             ELSE [op |-> "get_batch", arg |-> split, fault |-> "RuntimeError",
                   out |-> <<>>, ix |-> ix]
  /\ UNCHANGED <<text, chars, vocab_size, stoi, itos, data, n, train_data, val_data, pc, hpVars, nonTok>>

GetBatchFault(split) ==
  /\ pc = "ready"
  /\ call.op = "none"
  /\ Randint(RandintHigh(SplitOf(split)), batch_size) = {}
  /\ call' = [op |-> "get_batch", arg |-> split, fault |-> "RuntimeError",
              out |-> <<>>, ix |-> <<>>]
  /\ UNCHANGED <<text, chars, vocab_size, stoi, itos, data, n, train_data, val_data, pc, hpVars, nonTok>>

GetBatch(split) ==
  \/ \E ix \in Randint(RandintHigh(SplitOf(split)), batch_size) : GetBatchOk(split, ix)
  \/ GetBatchFault(split)

\* the call returns to the notebook and its result is dropped
ReturnCall ==
  /\ call.op # "none"
  /\ call' = NoCall
  /\ UNCHANGED <<text, chars, vocab_size, stoi, itos, data, n, train_data, val_data, pc, hpVars, nonTok>>

\* ---------------------------------------------------------------- initial values
\* the parts of the notebook that a specification does not run stay as below
\* the tokenizer and dataset cells, when the vocabulary size is given directly
IdleTok ==
  /\ text = <<>>
  /\ chars = <<>>
  /\ stoi = <<>>
  /\ itos = <<>>
  /\ data = <<>>
  /\ n = 0
  /\ train_data = <<>>
  /\ val_data = <<>>
  /\ pc = "idle"
  /\ call = NoCall

\* the name model before the model cell has run
NoModel == [constructed |-> FALSE, head_size |-> 0, num_heads |-> 0,
            proj_in |-> 0, n_embd |-> 0, vocab_size |-> 0, block_size |-> 0]

NoModelYet ==
  /\ model = NoModel
  /\ training = TRUE

NoTargets == [given |-> FALSE, val |-> <<>>]

IdleFwd == fwd = [pc |-> "idle", idx |-> <<>>, targets |-> NoTargets,
                  fault |-> "none", logits |-> <<>>, loss |-> "None"]

IdleGen ==
  /\ prompt = <<>>
  /\ max_new_tokens = 0
  /\ idx = <<>>
  /\ idx_cond = <<>>
  /\ gen_k = 0
  /\ gen_pc = "idle"

IdleHead ==
  /\ head_T = 0
  /\ head_q = <<>>
  /\ head_k = <<>>
  /\ wei = <<>>
  /\ head_pc = "idle"

NoBatch == [split |-> "none", ix |-> <<>>, x |-> <<>>, y |-> <<>>]

NoLoss == [split |-> "none", ix |-> <<>>, training |-> FALSE, params |-> 0]

IdleEst == [pc |-> "idle", s |-> 0, k |-> 0, X |-> NoBatch, losses |-> <<>>, out |-> <<>>]

\* the training cell has not run
IdleTrain ==
  /\ max_iters = 0
  /\ eval_interval = 0
  /\ eval_iters = 0
  /\ range_i = 0
  /\ iter = 0
  /\ tr_pc = "idle"
  /\ est = IdleEst
  /\ xb = NoBatch
  /\ loss = NoLoss
  /\ grad = NoLoss
  /\ params = 0
  /\ losses = <<>>

\* no forward pass by value is running
IdleVal ==
  /\ runs = <<>>
  /\ val_pc = "idle"

\* before the hyperparameters cell has run the four names are unset (0)
UnsetHp ==
  /\ block_size = 0
  /\ batch_size = 0
  /\ n_embd = 0
  /\ n_head = 0

\* ---------------------------------------------------------------- data pipeline
\* the corpus has been read
InitTok ==
  /\ text \in Corpora
  /\ chars = <<>>
  /\ stoi = <<>>
  /\ itos = <<>>
  /\ data = <<>>
  /\ n = 0
  /\ train_data = <<>>
  /\ val_data = <<>>
  /\ pc = "vocab"
  /\ call = NoCall
  /\ vocab_size = 0

InitData == UnsetHp /\ InitTok /\ IdleHead /\ NoModelYet /\ IdleFwd /\ IdleGen /\ IdleTrain /\ IdleVal

NextData ==
  \/ BuildVocab
  \/ BuildMaps
  \/ EncodeCorpus
  \/ SplitData
  \/ \E bs \in 1..MaxBlock, b \in 1..MaxBatch : SetHyperparameters(bs, b, MaxEmbd, 1)
  \/ \E s \in SeqsUpTo(Alphabet, MaxStr) : EncodeCall(s)
  \/ \E l \in SeqsUpTo(0..NumSym, MaxStr) : DecodeCall(l)
  \/ \E s \in SeqsUpTo(Alphabet, MaxStr) : RoundTripCall(s)
  \/ \E split \in {"train", "val"} : GetBatch(split)
  \/ ReturnCall

SpecData == InitData /\ [][NextData]_vars

\* ---------------------------------------------------------------- attention head
\* an entry of the score matrix: a finite score or float('-inf')
Fin(v) == [inf |-> FALSE, v |-> v]
NegInf == [inf |-> TRUE, v |-> 0]

\* the values query(x) and key(x) are drawn from
QKVals == {0, 1}

\* wei = q @ k.transpose(-2,-1) * k.shape[-1]**-0.5 with head_size 1, where the
\* product is q[i] * k[j] and the scale is 1
Scores(q, k) == [i \in DOMAIN q |-> [j \in DOMAIN k |-> Fin(q[i] * k[j])]]

\* variant: the upper triangle is kept (torch.triu)
Triu(T) ==
  LET m == IF T < block_size THEN T ELSE block_size
  IN  [i \in 1..m |-> [j \in 1..m |-> IF j >= i THEN 1 ELSE 0]]

\* self.tril[:T, :T]: the lower triangle of ones of the (block_size, block_size)
\* buffer, sliced to side min(T, block_size)
Tril(T) ==
  LET m == IF T < block_size THEN T ELSE block_size
  IN  [i \in 1..m |-> [j \in 1..m |-> IF j <= i THEN 1 ELSE 0]]

\* masked_fill broadcasts the (m, m) mask against the (T, T) scores
Broadcastable(mask, T) == Len(mask) = T \/ Len(mask) = 1

MaskAt(mask, i, j) == IF Len(mask) = 1 THEN mask[1][1] ELSE mask[i][j]

\* wei.masked_fill(mask == 0, float('-inf'))
MaskedFill(w, mask) ==
  [i \in DOMAIN w |-> [j \in DOMAIN w[i] |->
     IF MaskAt(mask, i, j) = 0 THEN NegInf ELSE w[i][j]]]

\* exp of a score, as an exact positive integer (base 2); exp(-inf) = 0
ExpOf(e) == IF e.inf THEN 0 ELSE 2 ^ e.v

RECURSIVE SumExp(_, _)
SumExp(row, k) == IF k = 0 THEN 0 ELSE ExpOf(row[k]) + SumExp(row, k - 1)

\* F.softmax(wei, dim=-1): each entry is the rational num/den; a row of -inf
\* only gives 0/0 (NaN)
Softmax(w) ==
  [i \in DOMAIN w |-> [j \in DOMAIN w[i] |->
     [num |-> ExpOf(w[i][j]), den |-> SumExp(w[i], Len(w[i]))]]]

\* nn.Dropout(dropout) with dropout = 0.2: in training mode an entry is zeroed
\* or scaled by 1/(1 - 0.2) = 5/4; in eval mode the identity
Dropout(w, keep) ==
  IF training
  THEN [i \in DOMAIN w |-> [j \in DOMAIN w[i] |->
          IF keep[i][j] THEN [num |-> 5 * w[i][j].num, den |-> 4 * w[i][j].den]
                        ELSE [num |-> 0, den |-> 4 * w[i][j].den]]]
  ELSE w

\* k = self.key(x); q = self.query(x); wei = q @ k.transpose(-2,-1) * ...
HeadScores ==
  /\ head_pc = "scores"
  /\ wei' = Scores(head_q, head_k)
  /\ head_pc' = "mask"
  /\ UNCHANGED <<training, head_T, head_q, head_k, nonHead>>

\* wei = wei.masked_fill(self.tril[:T, :T] == 0, float('-inf'))
HeadMask ==
  /\ head_pc = "mask"
  /\ IF Broadcastable(Tril(head_T), head_T)
     THEN wei' = MaskedFill(wei, Tril(head_T)) /\ head_pc' = "softmax"
     ELSE wei' = wei /\ head_pc' = "fault"
  /\ UNCHANGED <<training, head_T, head_q, head_k, nonHead>>

\* wei = F.softmax(wei, dim=-1)
HeadSoftmax ==
  /\ head_pc = "softmax"
  /\ wei' = Softmax(wei)
  /\ head_pc' = "dropout"
  /\ UNCHANGED <<training, head_T, head_q, head_k, nonHead>>

\* wei = self.dropout(wei)
HeadDropout ==
  /\ head_pc = "dropout"
  /\ \E keep \in [1..head_T -> [1..head_T -> BOOLEAN]] : wei' = Dropout(wei, keep)
  /\ head_pc' = "done"
  /\ UNCHANGED <<training, head_T, head_q, head_k, nonHead>>

\* a head of size 1 called on any input of up to block_size + 1 positions
InitHead ==
  /\ block_size \in 1..MaxBlock
  /\ batch_size = 1
  /\ n_embd = 1
  /\ n_head = 1
  /\ vocab_size = 1
  /\ IdleTok
  /\ model = NoModel
  /\ IdleFwd
  /\ IdleGen
  /\ IdleTrain
  /\ IdleVal
  /\ training \in BOOLEAN
  /\ head_T \in 0..(block_size + 1)
  /\ head_q \in [1..head_T -> QKVals]
  /\ head_k \in [1..head_T -> QKVals]
  /\ wei = <<>>
  /\ head_pc = "scores"

NextHead ==
  \/ HeadScores
  \/ HeadMask
  \/ HeadSoftmax
  \/ HeadDropout

SpecHead == InitHead /\ [][NextHead]_vars

\* ---------------------------------------------------------------- model construction
\* Block.__init__: head_size = n_embd // n_head
HeadSize(e, h) == e \div h

\* variant: lm_head and the token table are one row too wide
BuildModelWideHead ==
  [constructed |-> TRUE,
   head_size   |-> n_embd \div n_head,
   num_heads   |-> n_head,
   proj_in     |-> (n_embd \div n_head) * n_head,
   n_embd      |-> n_embd,
   vocab_size  |-> vocab_size + 1,
   block_size  |-> block_size]

\* GPTLanguageModel.__init__ -> Block.__init__ -> MultiHeadAttention.__init__:
\* the widths of the layers; nothing is validated, every n_head >= 1 constructs
BuildModel ==
  [constructed |-> TRUE,
   head_size   |-> HeadSize(n_embd, n_head),              \* Head(head_size)
   num_heads   |-> n_head,
   proj_in     |-> HeadSize(n_embd, n_head) * n_head,     \* nn.Linear(head_size * num_heads, n_embd)
   n_embd      |-> n_embd,
   vocab_size  |-> vocab_size,                            \* nn.Embedding(vocab_size, n_embd), lm_head
   block_size  |-> block_size]                            \* nn.Embedding(block_size, n_embd), tril

\* model = GPTLanguageModel(): a fresh nn.Module is in training mode
Construct ==
  /\ ~model.constructed
  /\ model' = BuildModel
  /\ training' = TRUE
  /\ UNCHANGED <<nonModel, fwd, genVars>>

\* ---------------------------------------------------------------- forward pass
Shape2(x) == <<Len(x), IF Len(x) = 0 THEN 0 ELSE Len(x[1])>>

InRange(x, V) == \A b \in DOMAIN x : \A t \in DOMAIN x[b] : x[b][t] \in 0..(V - 1)

FwdFault(f) == [fault |-> f, logits |-> <<>>, loss |-> "None"]

\* variant: the logits are returned as computed, (B, T, vocab_size)
LogitsUnflattened(B, T, V, given) == <<B, T, V>>

\* the shape of the returned logits: with targets, logits = logits.view(B*T, C)
\* is what forward returns
LogitsShape(B, T, V, given) == IF given THEN <<B * T, V>> ELSE <<B, T, V>>

\* GPTLanguageModel.forward(idx, targets): the returned (logits shape, loss) or
\* the fault that ends the call. The blocks, ln_f and lm_head keep the leading
\* (B, T) of x: every head maps (B, T, n_embd) to (B, T, head_size), the
\* concatenation has width proj_in and proj maps it back to n_embd.
Forward(x, targets) ==
  LET B == Shape2(x)[1]
      T == Shape2(x)[2]
      V == model.vocab_size
  IN  IF ~InRange(x, V)
      THEN FwdFault("IndexError: token")         \* token_embedding_table(idx)
      ELSE IF T > model.block_size
      THEN FwdFault("IndexError: position")      \* position_embedding_table(arange(T))
      ELSE IF model.head_size = 0
      THEN FwdFault("ZeroDivisionError")         \* k.shape[-1]**-0.5 in Head.forward
      ELSE IF ~targets.given
      THEN [fault |-> "none", logits |-> LogitsShape(B, T, V, FALSE), loss |-> "None"]
      ELSE IF Shape2(targets.val)[1] * Shape2(targets.val)[2] # B * T
      THEN FwdFault("RuntimeError: view")        \* targets.view(B*T)
      ELSE IF ~InRange(targets.val, V)
      THEN FwdFault("IndexError: target")        \* F.cross_entropy(logits, targets)
      ELSE [fault |-> "none", logits |-> LogitsShape(B, T, V, TRUE), loss |-> "scalar"]

\* logits, loss = model(x, targets)
ForwardCall(x, targets) ==
  /\ model.constructed
  /\ fwd.pc = "idle"
  /\ fwd' = [pc |-> "returned", idx |-> x, targets |-> targets,
             fault |-> Forward(x, targets).fault,
             logits |-> Forward(x, targets).logits,
             loss |-> Forward(x, targets).loss]
  /\ UNCHANGED <<modelVars, nonModel, genVars>>

\* the returned pair is dropped
ForwardReturn ==
  /\ fwd.pc = "returned"
  /\ fwd' = [pc |-> "idle", idx |-> <<>>, targets |-> NoTargets,
             fault |-> "none", logits |-> <<>>, loss |-> "None"]
  /\ UNCHANGED <<modelVars, nonModel, genVars>>

\* token values an input is drawn from: the first and the last vocabulary
\* index and the first index outside the vocabulary
TokVals == {0, vocab_size - 1, vocab_size}

\* a (B, T) tensor whose rows are all row
Rows(B, row) == [b \in 1..B |-> row]

FwdInputs == { Rows(batch_size, row) : row \in SeqsUpTo(TokVals, block_size + 1) }

FwdTargets(x) ==
  {NoTargets} \cup
  { [given |-> TRUE, val |-> Rows(Len(x), [t \in 1..T |-> c])] :
      c \in TokVals, T \in {Len(x[1]), Len(x[1]) + 1} }

InitModel ==
  /\ block_size \in 1..MaxBlock
  /\ batch_size \in 1..MaxBatch
  /\ n_embd \in 1..MaxEmbd
  /\ n_head \in 1..MaxHeads
  /\ vocab_size \in 1..MaxVocab
  /\ IdleTok
  /\ NoModelYet
  /\ IdleHead
  /\ IdleFwd
  /\ IdleGen
  /\ IdleTrain
  /\ IdleVal

NextModel ==
  \/ Construct
  \/ /\ fwd.pc = "idle"
     /\ \E x \in FwdInputs : \E t \in FwdTargets(x) : ForwardCall(x, t)
  \/ ForwardReturn

SpecModel == InitModel /\ [][NextModel]_vars

\* ---------------------------------------------------------------- generate
\* variant: the whole running sequence is handed on (no crop)
NoCrop(x) == x

\* idx_cond = idx[:, -block_size:]: the last block_size columns, all of them
\* when there are no more than block_size
Crop(x) ==
  [b \in DOMAIN x |->
     Slice(x[b], IF Len(x[b]) > block_size THEN Len(x[b]) - block_size ELSE 0, Len(x[b]))]

\* variant: the sampled column replaces the last one
ReplaceLast(x, nxt) ==
  [b \in DOMAIN x |->
     IF Len(x[b]) = 0 THEN <<nxt[b]>>
     ELSE [t \in DOMAIN x[b] |-> IF t = Len(x[b]) THEN nxt[b] ELSE x[b][t]]]

\* idx = torch.cat((idx, idx_next), dim=1)
Cat(x, nxt) == [b \in DOMAIN x |-> Append(x[b], nxt[b])]

\* m.generate(context, max_new_tokens=nnew): entry of the call
GenerateCall(p, nnew) ==
  /\ model.constructed
  /\ gen_pc = "idle"
  /\ prompt' = p
  /\ idx' = p
  /\ max_new_tokens' = nnew
  /\ gen_k' = 0
  /\ idx_cond' = <<>>
  /\ gen_pc' = "loop"
  /\ UNCHANGED <<modelVars, nonModel, fwd>>

\* one iteration of the loop: crop, forward, last-step logits, softmax,
\* multinomial sample (any index of the logits' last dimension), append
GenerateStep ==
  /\ gen_pc = "loop"
  /\ gen_k < max_new_tokens
  /\ idx_cond' = Crop(idx)
  /\ LET out == Forward(Crop(idx), NoTargets) IN
       IF out.fault # "none"
       THEN gen_pc' = out.fault /\ UNCHANGED <<idx, gen_k>>
       ELSE IF out.logits[2] = 0
       THEN gen_pc' = "IndexError: logits[:, -1, :]" /\ UNCHANGED <<idx, gen_k>>
       ELSE /\ \E nxt \in [1..out.logits[1] -> 0..(out.logits[3] - 1)] :
                 idx' = Cat(idx, nxt)
            /\ gen_k' = gen_k + 1
            /\ gen_pc' = "loop"
  /\ UNCHANGED <<prompt, max_new_tokens, modelVars, nonModel, fwd>>

\* the range is exhausted: return idx
GenerateReturn ==
  /\ gen_pc = "loop"
  /\ gen_k >= max_new_tokens
  /\ gen_pc' = "returned"
  /\ UNCHANGED <<prompt, max_new_tokens, idx, idx_cond, gen_k, modelVars, nonModel, fwd>>

\* the batch sizes generate is called with (the notebook calls it with 1 row)
GenBatch == {1, 2}

\* prompts: rows of up to MaxPrompt tokens, the index vocab_size (outside the
\* vocabulary) among them
Prompts == { Rows(B, row) : B \in GenBatch, row \in SeqsUpTo(0..vocab_size, MaxPrompt) }

\* the notebook after the model cell: one head per block, model constructed
InitGen ==
  /\ block_size \in 1..MaxBlock
  /\ batch_size = 1
  /\ n_embd = MaxEmbd
  /\ n_head = 1
  /\ vocab_size \in 1..MaxVocab
  /\ IdleTok
  /\ model = BuildModel
  /\ training = TRUE
  /\ IdleHead
  /\ IdleFwd
  /\ IdleGen
  /\ IdleTrain
  /\ IdleVal

NextGen ==
  \/ /\ gen_pc = "idle"
     /\ \E p \in Prompts, nnew \in 0..MaxNew : GenerateCall(p, nnew)
  \/ GenerateStep
  \/ GenerateReturn

SpecGen == InitGen /\ [][NextGen]_vars

\* generate runs on one thread: a loop iteration or the return that can be
\* taken is taken
FairSpecGen == SpecGen /\ WF_vars(GenerateStep) /\ WF_vars(GenerateReturn)

\* ---------------------------------------------------------------- training loop
\* the corpus the training run reads: "abab...", empty or just long enough
\* for a validation split of two tokens
TrainCorpora == { Corpus(<<97, 98>>, L) : L \in {0, MaxText - 1} }

\* every batch get_batch(split) can return; none when torch.randint raises
Batches(split) ==
  LET d == SplitOf(split) IN
  { [split |-> split, ix |-> ix, x |-> BatchX(d, ix), y |-> BatchY(d, ix)] :
      ix \in { i \in Randint(RandintHigh(d), batch_size) :
                 Stackable(BatchX(d, i)) /\ Stackable(BatchY(d, i)) } }

\* the loss of model(b.x, b.y): a scalar that depends on the batch, on the
\* mode of the dropout layers and on the parameters
LossOf(b) == [split |-> b.split, ix |-> b.ix, training |-> training, params |-> params]

\* loss.item(): the float, stored in losses[k]
Item(l) == [split |-> l.split, training |-> l.training]

\* for split in ['train', 'val']
Splits == <<"train", "val">>

\* variant: no evaluation at the last iteration
EvalDueNoLast(i) == i % eval_interval = 0

\* if iter % eval_interval == 0 or iter == max_iters - 1
EvalDue(i) == i % eval_interval = 0 \/ i = max_iters - 1

\* variant: the module stays in eval mode
ModuleTrainStuck(mode) == FALSE

\* nn.Module.train(mode) sets self.training = mode; eval() is train(False)
ModuleTrain(mode) == mode

\* variant: the pass of estimate_loss applies an update
EvalPassStepped(p) == p + 1

\* the parameters after a pass of estimate_loss: get_batch and model(X, Y)
\* under torch.no_grad() assign no parameter
EvalPass(p) == p

\* optimizer.step(): one update of every parameter that has a .grad
StepParams(p, g) == IF g.split = "none" THEN p ELSE p + 1

\* for iter in range(max_iters): and the if that follows
ForIter ==
  /\ tr_pc = "for"
  /\ IF range_i < max_iters
     THEN /\ iter' = range_i
          /\ range_i' = range_i + 1
          /\ tr_pc' = IF EvalDue(range_i) THEN "estimate_loss" ELSE "get_batch"
     ELSE /\ tr_pc' = "done"
          /\ UNCHANGED <<iter, range_i>>
  /\ UNCHANGED <<evalHp, est, xb, loss, grad, params, losses, training, nonTrain>>

\* estimate_loss(): out = {}; model.eval(); the first split's losses = zeros
EstBegin ==
  /\ tr_pc = "estimate_loss"
  /\ est.pc = "idle"
  /\ training' = ModuleTrain(FALSE)
  /\ est' = [pc |-> "loop", s |-> 1, k |-> 0, X |-> NoBatch, losses |-> <<>>, out |-> <<>>]
  /\ UNCHANGED <<evalHp, range_i, iter, tr_pc, xb, loss, grad, params, losses, nonTrain>>

\* X, Y = get_batch(split); logits, loss = model(X, Y); losses[k] = loss.item()
EstPass ==
  /\ tr_pc = "estimate_loss"
  /\ est.pc = "loop"
  /\ est.k < eval_iters
  /\ IF Batches(Splits[est.s]) = {}
     THEN /\ est' = [est EXCEPT !.pc = "RuntimeError: get_batch"]
          /\ tr_pc' = "RuntimeError: get_batch"
     ELSE \E b \in Batches(Splits[est.s]) :
            LET out == Forward(b.x, [given |-> TRUE, val |-> b.y]) IN
            IF out.fault # "none"
            THEN /\ est' = [est EXCEPT !.pc = out.fault, !.X = b]
                 /\ tr_pc' = out.fault
            ELSE /\ est' = [est EXCEPT !.X = b, !.k = est.k + 1,
                                       !.losses = Append(est.losses, Item(LossOf(b)))]
                 /\ tr_pc' = tr_pc
  /\ params' = EvalPass(params)
  /\ UNCHANGED <<evalHp, range_i, iter, xb, loss, grad, losses, training, nonTrain>>

\* out[split] = losses.mean(), then the next split or the end of the loop
EstMean ==
  /\ tr_pc = "estimate_loss"
  /\ est.pc = "loop"
  /\ est.k >= eval_iters
  /\ est' = [est EXCEPT !.out = Append(est.out, [split |-> Splits[est.s], mean |-> est.losses]),
                        !.losses = <<>>,
                        !.k = 0,
                        !.s = est.s + 1,
                        !.pc = IF est.s = Len(Splits) THEN "train" ELSE "loop"]
  /\ UNCHANGED <<evalHp, range_i, iter, tr_pc, xb, loss, grad, params, losses, training, nonTrain>>

\* model.train(); return out; the caller's losses = estimate_loss() and print
EstReturn ==
  /\ tr_pc = "estimate_loss"
  /\ est.pc = "train"
  /\ training' = ModuleTrain(TRUE)
  /\ losses' = est.out
  /\ est' = IdleEst
  /\ tr_pc' = "get_batch"
  /\ UNCHANGED <<evalHp, range_i, iter, xb, loss, grad, params, nonTrain>>

\* xb, yb = get_batch('train')
TrainGetBatch ==
  /\ tr_pc = "get_batch"
  /\ IF Batches("train") = {}
     THEN tr_pc' = "RuntimeError: get_batch" /\ xb' = xb
     ELSE tr_pc' = "forward" /\ xb' \in Batches("train")
  /\ UNCHANGED <<evalHp, range_i, iter, est, loss, grad, params, losses, training, nonTrain>>

\* logits, loss = model(xb, yb)
TrainForward ==
  /\ tr_pc = "forward"
  /\ LET out == Forward(xb.x, [given |-> TRUE, val |-> xb.y]) IN
       IF out.fault # "none"
       THEN tr_pc' = out.fault /\ loss' = loss
       ELSE tr_pc' = "zero_grad" /\ loss' = LossOf(xb)
  /\ UNCHANGED <<evalHp, range_i, iter, est, xb, grad, params, losses, training, nonTrain>>

\* optimizer.zero_grad(set_to_none=True)
ZeroGrad ==
  /\ tr_pc = "zero_grad"
  /\ grad' = NoLoss
  /\ tr_pc' = "backward"
  /\ UNCHANGED <<evalHp, range_i, iter, est, xb, loss, params, losses, training, nonTrain>>

\* loss.backward()
Backward ==
  /\ tr_pc = "backward"
  /\ grad' = loss
  /\ tr_pc' = "step"
  /\ UNCHANGED <<evalHp, range_i, iter, est, xb, loss, params, losses, training, nonTrain>>

\* optimizer.step()
OptimizerStep ==
  /\ tr_pc = "step"
  /\ params' = StepParams(params, grad)
  /\ tr_pc' = "for"
  /\ UNCHANGED <<evalHp, range_i, iter, est, xb, loss, grad, losses, training, nonTrain>>

\* generation cell, run after the training cell has ended:
\* context = torch.tensor(encode(s))[None, ...]; m.generate(context, nnew)
GenerationCell(s, nnew) ==
  /\ tr_pc = "done"
  /\ encode(s).fault = "none"
  /\ GenerateCall(<<encode(s).out>>, nnew)

\* the notebook after the model cell: corpus encoded and split, hyperparameters
\* set, model and optimizer constructed
InitTrain ==
  /\ text \in TrainCorpora
  /\ chars = BuildChars(text)
  /\ vocab_size = Len(chars)
  /\ stoi = BuildStoi(chars)
  /\ itos = BuildItos(chars)
  /\ data = [i \in DOMAIN text |-> stoi[text[i]]]
  /\ n = SplitPoint(Len(data))
  /\ train_data = Slice(data, 0, n)
  /\ val_data = Slice(data, n, Len(data))
  /\ pc = "ready"
  /\ call = NoCall
  /\ block_size \in 1..MaxBlock
  /\ batch_size = 1
  /\ n_embd = MaxEmbd
  /\ n_head = 1
  /\ model = BuildModel
  /\ training = TRUE
  /\ IdleHead
  /\ IdleFwd
  /\ IdleGen
  /\ max_iters \in 0..MaxIters
  /\ eval_interval \in 1..MaxInterval
  /\ eval_iters \in 0..MaxEvalIters
  /\ range_i = 0
  /\ iter = 0
  /\ tr_pc = "for"
  /\ est = IdleEst
  /\ xb = NoBatch
  /\ loss = NoLoss
  /\ grad = NoLoss
  /\ params = 0
  /\ losses = <<>>
  /\ IdleVal

NextTrain ==
  \/ ForIter
  \/ EstBegin
  \/ EstPass
  \/ EstMean
  \/ EstReturn
  \/ TrainGetBatch
  \/ TrainForward
  \/ ZeroGrad
  \/ Backward
  \/ OptimizerStep
  \/ /\ gen_pc = "idle"
     /\ GenerationCell(Slice(text, 0, 1), 1)
  \/ GenerateStep
  \/ GenerateReturn

SpecTrain == InitTrain /\ [][NextTrain]_vars

\* the notebook runs on one thread: the statement that can run next runs
FairSpecTrain == SpecTrain /\ WF_vars(NextTrain)

\* ---------------------------------------------------------------- generation cell
\* the corpora the generation cell is run after: empty, or a pair of symbols
\* repeated
GenCorpora == {<<>>} \cup { Corpus(p, MaxPrompt) : p \in (Alphabet \X Alphabet) }

\* encode(s) of the generation cell raises KeyError: the cell ends
GenerationCellKeyError(s) ==
  /\ tr_pc = "done"
  /\ gen_pc = "idle"
  /\ encode(s).fault # "none"
  /\ gen_pc' = encode(s).fault
  /\ UNCHANGED <<prompt, max_new_tokens, idx, idx_cond, gen_k, modelVars, nonModel, fwd>>

\* print(decode(m.generate(...)[b].tolist()))
PrintDecode(b) ==
  /\ gen_pc = "returned"
  /\ call.op = "none"
  /\ call' = [op |-> "decode", arg |-> idx[b], fault |-> decode(idx[b]).fault,
              out |-> decode(idx[b]).out, ix |-> <<>>]
  /\ UNCHANGED <<text, chars, vocab_size, stoi, itos, data, n, train_data, val_data, pc, hpVars, nonTok>>

\* the notebook after the training cell (run with max_iters = 0)
InitGenCell ==
  /\ text \in GenCorpora
  /\ chars = BuildChars(text)
  /\ vocab_size = Len(chars)
  /\ stoi = BuildStoi(chars)
  /\ itos = BuildItos(chars)
  /\ data = [i \in DOMAIN text |-> stoi[text[i]]]
  /\ n = SplitPoint(Len(data))
  /\ train_data = Slice(data, 0, n)
  /\ val_data = Slice(data, n, Len(data))
  /\ pc = "ready"
  /\ call = NoCall
  /\ block_size \in 1..MaxBlock
  /\ batch_size = 1
  /\ n_embd = MaxEmbd
  /\ n_head = 1
  /\ model = BuildModel
  /\ training = TRUE
  /\ IdleHead
  /\ IdleFwd
  /\ IdleGen
  /\ max_iters = 0
  /\ eval_interval = 1
  /\ eval_iters = 0
  /\ range_i = 0
  /\ iter = 0
  /\ tr_pc = "done"
  /\ est = IdleEst
  /\ xb = NoBatch
  /\ loss = NoLoss
  /\ grad = NoLoss
  /\ params = 0
  /\ losses = <<>>
  /\ IdleVal

NextGenCell ==
  \/ /\ gen_pc = "idle"
     /\ \E s \in SeqsUpTo(Alphabet, MaxPrompt), nnew \in 0..MaxNew : GenerationCell(s, nnew)
  \/ /\ gen_pc = "idle"
     /\ \E s \in SeqsUpTo(Alphabet, MaxPrompt) : GenerationCellKeyError(s)
  \/ /\ gen_pc = "idle"
     /\ \E nnew \in 0..MaxNew : GenerateCall(<<<<vocab_size>>>>, nnew)
  \/ GenerateStep
  \/ GenerateReturn
  \/ \E b \in DOMAIN idx : PrintDecode(b)

SpecGenCell == InitGenCell /\ [][NextGenCell]_vars

\* ---------------------------------------------------------------- forward pass by value
\* One row of idx through a network of width n_embd = 2 with one block of two
\* heads of size 1 (the rows of a batch do not meet: every layer acts on the
\* last one or two dimensions). Activations are exact rationals; the weights
\* are a sample that depends on the number of updates applied (params).
RInt(v) == [num |-> v, den |-> 1]

RAdd(a, b) == [num |-> a.num * b.den + b.num * a.den, den |-> a.den * b.den]

RScale(c, a) == [num |-> c * a.num, den |-> a.den]

\* the sign of a rational with a positive denominator
Sgn(a) == IF a.num > 0 THEN 1 ELSE IF a.num < 0 THEN -1 ELSE 0

\* a sequence, and a sequence of sequences, held by its elements (a tensor in
\* memory rather than the expression that gives it)
Tensor1(v) == v \o <<>>
Tensor2(m) == [i \in DOMAIN m |-> m[i] \o <<>>] \o <<>>

\* elementwise sum of two (T, 2) activations
VecAdd(x, y) ==
  Tensor2([t \in DOMAIN x |-> <<RAdd(x[t][1], y[t][1]), RAdd(x[t][2], y[t][2])>>])

\* tok_emb + pos_emb: token_embedding_table(v) = (v, 1) and
\* position_embedding_table(t) = (params * t, 0)
Embed(row) == [t \in DOMAIN row |-> <<RInt(row[t] + params * (t - 1)), RInt(1)>>]

\* nn.LayerNorm(2) with weight 1 and bias 1, each position on its own: the
\* two features normalise to (+1, -1), (-1, +1) or (0, 0) (eps taken as 0)
LayerNorm(x) ==
  Tensor2([t \in DOMAIN x |->
     LET sg == Sgn(RAdd(x[t][1], RScale(-1, x[t][2]))) IN <<1 + sg, 1 - sg>>])

\* head h: query reads feature h, key the other feature, value feature h
HeadQuery(h, u) == Tensor1([t \in DOMAIN u |-> u[t][h]])
HeadKey(h, u)   == Tensor1([t \in DOMAIN u |-> u[t][3 - h]])
HeadValue(h, u) == Tensor1([t \in DOMAIN u |-> u[t][h]])

\* a dropout mask that keeps all or drops all entries of a (rows, cols) tensor
WholeMask(rows, cols, keep) == [i \in 1..rows |-> [j \in 1..cols |-> keep]]

\* variant: the scores are not masked
AttnWeightsNoMask(h, u, keep) ==
  Tensor2(Dropout(Softmax(Tensor2(Scores(HeadQuery(h, u), HeadKey(h, u)))),
                  WholeMask(Len(u), Len(u), keep)))

\* Head.forward up to the weights: scores, mask, softmax, dropout
AttnWeights(h, u, keep) ==
  Tensor2(Dropout(Softmax(Tensor2(MaskedFill(Scores(HeadQuery(h, u), HeadKey(h, u)),
                                             Tril(Len(u))))),
                  WholeMask(Len(u), Len(u), keep)))

RECURSIVE SumNum(_, _, _)
SumNum(row, v, k) == IF k = 0 THEN 0 ELSE row[k].num * v[k] + SumNum(row, v, k - 1)

\* out = wei @ v: row i of the weights (one denominator per row) times v
HeadOut(h, u, keep) ==
  LET w == AttnWeights(h, u, keep)
      v == HeadValue(h, u)
  IN  Tensor1([i \in DOMAIN u |-> [num |-> SumNum(w[i], v, Len(v)), den |-> w[i][1].den]])

\* torch.cat over the heads, then proj with weight (1 + params) * I, bias 0
MultiHead(u, keep1, keep2) ==
  LET out1 == HeadOut(1, u, keep1)
      out2 == HeadOut(2, u, keep2)
  IN  Tensor2([t \in DOMAIN u |->
                 <<RScale(1 + params, out1[t]), RScale(1 + params, out2[t])>>])

\* Linear(2, 8), ReLU, Linear(8, 2): hidden unit c is ReLU(u[c] - 1) for
\* c = 1, 2 and is passed on; the other six units have weight 0
FeedFoward(u) ==
  Tensor2([t \in DOMAIN u |-> <<RInt(IF u[t][1] > 1 THEN u[t][1] - 1 ELSE 0),
                                RInt(IF u[t][2] > 1 THEN u[t][2] - 1 ELSE 0)>>])

\* lm_head: logit of token v is v * u[1] + u[2]
LmHead(u) == [t \in DOMAIN u |-> [v \in 0..(vocab_size - 1) |-> v * u[t][1] + u[t][2]]]

\* the dropout outcomes modelled: in training mode the dropout layers of a
\* sub-layer keep all their entries or drop all (in eval mode the mask is not
\* read)
Keeps == IF training THEN BOOLEAN ELSE {TRUE}

\* tok_emb, pos_emb, x = tok_emb + pos_emb
ValEmbed ==
  /\ val_pc = "embed"
  /\ runs' = [r \in DOMAIN runs |-> [runs[r] EXCEPT !.x = Embed(runs[r].idx)]]
  /\ val_pc' = "sa"
  /\ UNCHANGED nonVal

\* Block.forward: x = x + self.sa(self.ln1(x))
ValAttention ==
  /\ val_pc = "sa"
  /\ \E k \in [DOMAIN runs -> Keeps] :
       runs' = [r \in DOMAIN runs |->
                  LET x == runs[r].x
                      sa == MultiHead(LayerNorm(x), k[r], k[r])
                  IN  [runs[r] EXCEPT !.x = VecAdd(x, Tensor2(Dropout(sa, WholeMask(Len(x), 2, k[r]))))]]
  /\ val_pc' = "ffwd"
  /\ UNCHANGED nonVal

\* Block.forward: x = x + self.ffwd(self.ln2(x))
ValFeedFoward ==
  /\ val_pc = "ffwd"
  /\ \E k \in [DOMAIN runs -> Keeps] :
       runs' = [r \in DOMAIN runs |->
                  LET x == runs[r].x
                      ff == FeedFoward(LayerNorm(x))
                  IN  [runs[r] EXCEPT !.x = VecAdd(x, Tensor2(Dropout(ff, WholeMask(Len(x), 2, k[r]))))]]
  /\ val_pc' = "lm_head"
  /\ UNCHANGED nonVal

\* x = self.ln_f(x); logits = self.lm_head(x)
ValLogits ==
  /\ val_pc = "lm_head"
  /\ runs' = [r \in DOMAIN runs |-> [runs[r] EXCEPT !.logits = LmHead(LayerNorm(runs[r].x))]]
  /\ val_pc' = "done"
  /\ UNCHANGED nonVal

\* a model of width 2 with two heads, in either mode, called on two rows of
\* the same length T <= block_size of vocabulary indices
InitVal ==
  /\ block_size \in 1..MaxBlock
  /\ batch_size = 1
  /\ n_embd = 2
  /\ n_head = 2
  /\ vocab_size \in 1..MaxVocab
  /\ IdleTok
  /\ model = BuildModel
  /\ training \in BOOLEAN
  /\ IdleHead
  /\ IdleFwd
  /\ IdleGen
  /\ max_iters = 0
  /\ eval_interval = 0
  /\ eval_iters = 0
  /\ range_i = 0
  /\ iter = 0
  /\ tr_pc = "idle"
  /\ est = IdleEst
  /\ xb = NoBatch
  /\ loss = NoLoss
  /\ grad = NoLoss
  /\ params \in 0..1
  /\ losses = <<>>
  /\ \E T \in 0..block_size :
       runs \in [1..2 -> { [idx |-> row, x |-> <<>>, logits |-> <<>>] :
                             row \in [1..T -> 0..(vocab_size - 1)] }]
  /\ val_pc = "embed"

NextVal ==
  \/ ValEmbed
  \/ ValAttention
  \/ ValFeedFoward
  \/ ValLogits

SpecVal == InitVal /\ [][NextVal]_vars

\* ================================================================ properties
\* the prompt is a tensor of vocabulary indices
PromptInVocab == InRange(prompt, vocab_size)

PromptLen == Shape2(prompt)[2]

\* the running sequence is the prompt followed by gen_k sampled columns
RunningSequence ==
  /\ gen_k <= max_new_tokens
  /\ Len(idx) = Len(prompt)
  /\ \A b \in DOMAIN idx :
       /\ Len(idx[b]) = PromptLen + gen_k
       /\ SubSeq(idx[b], 1, PromptLen) = prompt[b]

\* a step of the loop only appends: one column more, the old ones as they were
AppendOnly ==
  gen_pc = "loop" =>
    \/ /\ gen_pc' = "loop"
       /\ gen_k' = gen_k + 1
       /\ \A b \in DOMAIN idx :
            /\ Len(idx'[b]) = Len(idx[b]) + 1
            /\ SubSeq(idx'[b], 1, Len(idx[b])) = idx[b]
    \/ /\ gen_pc' # "loop"
       /\ idx' = idx /\ gen_k' = gen_k

\* C1 as claimed: for every prompt of shape (B, T0), B >= 1, and every n >= 0,
\* generate ends after exactly n sampling steps without a fault and returns a
\* sequence of shape (B, T0 + n) that starts with the prompt; after k steps the
\* running sequence has length T0 + k, and tokens are only ever appended.
C1_GenerateAsClaimed ==
  /\ []((gen_pc # "idle" /\ PromptInVocab) =>
          /\ gen_pc \in {"loop", "returned"}
          /\ RunningSequence
          /\ gen_pc = "returned" => gen_k = max_new_tokens)
  /\ [][PromptInVocab => AppendOnly]_vars
  /\ (gen_pc = "loop" /\ PromptInVocab) ~> (gen_pc = "returned")

\* C1, amended: the same for every prompt of vocabulary indices that is not
\* empty (T0 >= 1), or with n = 0; an empty prompt with n >= 1 ends in an
\* IndexError at logits[:, -1, :].
C1_Generate ==
  /\ []((gen_pc # "idle" /\ PromptInVocab /\ (PromptLen >= 1 \/ max_new_tokens = 0)) =>
          /\ gen_pc \in {"loop", "returned"}
          /\ RunningSequence
          /\ gen_pc = "returned" => gen_k = max_new_tokens)
  /\ []((gen_pc # "idle" /\ PromptInVocab /\ PromptLen = 0 /\ max_new_tokens >= 1) =>
          (gen_pc # "returned" /\ gen_k = 0 /\ idx = prompt))
  /\ [][PromptInVocab => AppendOnly]_vars
  /\ (gen_pc = "loop" /\ PromptInVocab /\ (PromptLen >= 1 \/ max_new_tokens = 0))
       ~> (gen_pc = "returned")

C1_Witness ==
  /\ gen_pc = "returned" /\ max_new_tokens = 2 /\ gen_k = 2
  /\ Len(prompt) = 2 /\ PromptLen = 2 /\ PromptInVocab
  /\ Len(idx[1]) = 4 /\ idx[1] # idx[2]
  /\ idx[1][3] # idx[1][4]

\* C2: at every step of generate the forward pass gets exactly the last
\* min(L, block_size) tokens of the running sequence of length L, so its length
\* is at most block_size and every position index is below block_size; the
\* running sequence itself keeps all its tokens.
C2_ForwardInputCropped ==
  [][(gen_pc = "loop" /\ gen_pc' # "returned") =>
       /\ Len(idx_cond') = Len(idx)
       /\ gen_pc' # "IndexError: position"
       /\ \A b \in DOMAIN idx :
            LET L == Len(idx[b])
                m == IF L < block_size THEN L ELSE block_size
            IN  /\ Len(idx_cond'[b]) = m
                /\ \A j \in 1..m : idx_cond'[b][j] = idx[b][L - m + j]
                /\ \A pos \in 0..(Len(idx_cond'[b]) - 1) : pos < model.block_size
                /\ Len(idx'[b]) >= L
                /\ SubSeq(idx'[b], 1, L) = idx[b]]_vars

C2_Witness ==
  /\ gen_pc = "loop" /\ gen_k = 2 /\ block_size = 2
  /\ Len(idx[1]) = 4
  /\ idx_cond[1] = <<idx[1][2], idx[1][3]>>
  /\ idx[1][1] # idx[1][2] /\ idx[1][2] # idx[1][3]

\* C3: for T <= block_size the attention weight from query i to a later key j
\* is -inf after masking and exactly zero after softmax, and still zero after
\* dropout; every query row keeps the keys 0..i with a positive weight (no row
\* is fully masked), and position 0 gives itself the softmax weight 1.
C3_CausalMask ==
  head_T <= block_size =>
    /\ head_pc # "fault"
    /\ head_pc = "softmax" =>
         \A i, j \in 1..head_T : wei[i][j].inf <=> (i < j)
    /\ head_pc = "dropout" =>
         /\ \A i, j \in 1..head_T :
              /\ wei[i][j].den > 0
              /\ (i < j) => wei[i][j].num = 0
              /\ (j <= i) => wei[i][j].num > 0
         /\ head_T >= 1 => wei[1][1].num = wei[1][1].den
    /\ head_pc = "done" =>
         \A i, j \in 1..head_T : (i < j) => (wei[i][j].num = 0 /\ wei[i][j].den > 0)

C3_Witness ==
  /\ head_pc = "done" /\ training /\ head_T = 2 /\ block_size = 2
  /\ head_q[2] = 1 /\ head_k[1] = 1 /\ head_k[2] = 0
  /\ wei[2][1].num = 10 /\ wei[2][1].den = 12
  /\ wei[2][2].num = 0
  /\ wei[1][2].num = 0

\* the arguments of the last forward call are well formed: T <= block_size,
\* tokens (and targets, of the input's shape) are vocabulary indices, and the
\* heads have a positive size
FwdWellFormed ==
  /\ fwd.pc = "returned"
  /\ Shape2(fwd.idx)[2] <= block_size
  /\ InRange(fwd.idx, vocab_size)
  /\ model.head_size >= 1
  /\ fwd.targets.given =>
       /\ Shape2(fwd.targets.val) = Shape2(fwd.idx)
       /\ InRange(fwd.targets.val, vocab_size)

\* C4 as claimed: for idx of shape (B, T), T <= block_size, forward returns
\* logits of shape (B, T, vocab_size) with and without targets, and the loss
\* is a scalar exactly when targets are supplied, None otherwise.
C4_ForwardShapeAsClaimed ==
  FwdWellFormed =>
    /\ fwd.fault = "none"
    /\ fwd.logits = <<Shape2(fwd.idx)[1], Shape2(fwd.idx)[2], vocab_size>>
    /\ (fwd.loss = "scalar") <=> fwd.targets.given
    /\ (fwd.loss = "None") <=> ~fwd.targets.given

\* C4, amended: the logits have shape (B, T, vocab_size) when no targets are
\* supplied and the flattened shape (B*T, vocab_size) when they are; the loss
\* is a scalar exactly when targets are supplied, None otherwise.
C4_ForwardShape ==
  FwdWellFormed =>
    /\ fwd.fault = "none"
    /\ ~fwd.targets.given =>
         fwd.logits = <<Shape2(fwd.idx)[1], Shape2(fwd.idx)[2], vocab_size>>
    /\ fwd.targets.given =>
         fwd.logits = <<Shape2(fwd.idx)[1] * Shape2(fwd.idx)[2], vocab_size>>
    /\ (fwd.loss = "scalar") <=> fwd.targets.given
    /\ (fwd.loss = "None") <=> ~fwd.targets.given

C4_Witness ==
  /\ FwdWellFormed /\ fwd.targets.given
  /\ Shape2(fwd.idx) = <<2, 2>> /\ vocab_size = 2
  /\ fwd.logits = <<4, 2>> /\ fwd.loss = "scalar"

\* the cells that have run
VocabBuilt == pc \in {"maps", "encode_text", "split", "hyperparameters", "ready"}
MapsBuilt  == pc \in {"encode_text", "split", "hyperparameters", "ready"}
Encoded    == pc \in {"split", "hyperparameters", "ready"}
InVocab(s) == \A i \in DOMAIN s : s[i] \in Range(chars)

\* C5: when the split is longer than the context length, get_batch returns an
\* input and a target batch of shape (batch_size, block_size); every offset is
\* in [0, len(split) - block_size), every position read is inside the split,
\* input[i][j] = split[offset_i + j] and target[i][j] = split[offset_i + j + 1].
C5_BatchWindows ==
  (call.op = "get_batch" /\ Len(SplitOf(call.arg)) > block_size) =>
    LET d == SplitOf(call.arg)
        x == call.out[1]
        y == call.out[2]
    IN  /\ call.fault = "none"
        /\ Len(call.out) = 2
        /\ Len(x) = batch_size /\ Len(y) = batch_size
        /\ DOMAIN call.ix = 1..batch_size
        /\ \A i \in 1..batch_size :
             /\ Len(x[i]) = block_size /\ Len(y[i]) = block_size
             /\ call.ix[i] >= 0 /\ call.ix[i] < Len(d) - block_size
             /\ \A j \in 0..(block_size - 1) :
                  /\ call.ix[i] + j + 1 \in DOMAIN d
                  /\ call.ix[i] + j + 2 \in DOMAIN d
                  /\ x[i][j + 1] = d[call.ix[i] + j + 1]
                  /\ y[i][j + 1] = d[call.ix[i] + j + 2]

C5_Witness ==
  /\ call.op = "get_batch" /\ call.arg = "train" /\ call.fault = "none"
  /\ batch_size = 2 /\ block_size = 2
  /\ call.ix[1] = 0
  /\ call.ix[2] = Len(train_data) - block_size - 1
  /\ call.ix[2] > 2
  /\ call.out[1][2] # call.out[2][2]

\* C6: for every string of vocabulary symbols (the empty string too),
\* decode(encode(s)) = s.
C6_RoundTrip ==
  (call.op = "decode_encode" /\ InVocab(call.arg)) =>
    (call.fault = "none" /\ call.out = call.arg)

C6_Witness ==
  /\ call.op = "decode_encode" /\ InVocab(call.arg) /\ call.fault = "none"
  /\ Len(call.arg) = 2 /\ call.arg[1] > call.arg[2]
  /\ 97 \notin Range(chars)

\* C7: the vocabulary size is the number of distinct symbols of the corpus,
\* stoi and itos are mutually inverse bijections between the vocabulary and
\* [0, V), and the encoded corpus has the corpus' length and indices in [0, V).
C7_Vocabulary ==
  /\ VocabBuilt => /\ vocab_size = Cardinality(Range(text))
                   /\ Range(chars) = Range(text)
  /\ MapsBuilt  => /\ DOMAIN stoi = Range(text)
                   /\ DOMAIN itos = 0..(vocab_size - 1)
                   /\ \A c \in DOMAIN stoi : stoi[c] \in DOMAIN itos /\ itos[stoi[c]] = c
                   /\ \A i \in DOMAIN itos : itos[i] \in DOMAIN stoi /\ stoi[itos[i]] = i
  /\ Encoded    => /\ Len(data) = Len(text)
                   /\ \A i \in DOMAIN data : data[i] \in 0..(vocab_size - 1)

C7_Witness ==
  /\ pc = "ready" /\ vocab_size = 2 /\ Len(data) = 3
  /\ text[1] > text[2]
  /\ data[1] = 1 /\ data[2] = 0

\* C8: train_data is the first floor(0.9 * L) elements of the encoded corpus and
\* val_data the remaining L - floor(0.9 * L); the two ranges are disjoint and
\* contiguous, and train followed by validation is the encoded corpus.
C8_Split ==
  pc \in {"hyperparameters", "ready"} =>
    /\ 10 * n <= 9 * Len(data) /\ 9 * Len(data) < 10 * (n + 1)
    /\ Len(train_data) = n
    /\ Len(val_data) = Len(data) - n
    /\ \A i \in 1..n : train_data[i] = data[i]
    /\ \A i \in 1..(Len(data) - n) : val_data[i] = data[n + i]
    /\ train_data \o val_data = data

C8_Witness ==
  /\ pc = "hyperparameters" /\ Len(data) = 11 /\ n = 9
  /\ Len(val_data) = 2 /\ val_data[1] # val_data[2]

\* C9 as claimed: an embedding width that the head count does not divide is
\* rejected at construction, so no constructed model has heads whose
\* concatenated width num_heads * head_size differs from the embedding width.
C9_DivisibilityChecked ==
  model.constructed =>
    /\ n_embd % n_head = 0
    /\ model.num_heads * model.head_size = model.n_embd

\* C10: encode of a string with a symbol absent from the vocabulary ends in a
\* lookup failure and returns no index sequence (no UNK index, no partial
\* result), and the failed call leaves the vocabulary maps as they were.
C10_EncodeFault ==
  /\ []((call.op = "encode" /\ ~InVocab(call.arg)) =>
          (call.fault = "KeyError" /\ call.out = <<>>))
  /\ [][(call'.op = "encode" /\ ~InVocab(call'.arg)) =>
          (stoi' = stoi /\ itos' = itos /\ chars' = chars /\ vocab_size' = vocab_size)]_vars

C10_Witness ==
  /\ call.op = "encode" /\ call.fault = "KeyError"
  /\ Len(call.arg) = 2
  /\ call.arg[1] \in Range(chars) /\ call.arg[2] \notin Range(chars)

\* the statements of one training iteration after the evaluation
InBody == tr_pc \in {"get_batch", "forward", "zero_grad", "backward", "step"}

\* C11: the parameters change only in the optimizer step of a training
\* iteration: estimate_loss, get_batch, a forward pass and generate leave them
\* as they were, no update happens while a forward pass is about to run or
\* running, and the layers of the model are never rebuilt.
C11_ParametersFrame ==
  [][/\ (params' # params) => (tr_pc = "step" /\ tr_pc' = "for" /\ params' = params + 1)
     /\ (tr_pc \in {"estimate_loss", "get_batch", "forward"}) => params' = params
     /\ (gen_pc = "loop") => params' = params
     /\ model' = model]_vars

C11_Witness ==
  /\ params = 2 /\ tr_pc = "done"
  /\ Len(losses) = 2 /\ losses[2].mean # <<>>
  /\ gen_pc = "returned" /\ gen_k = 1 /\ idx[1] = <<0, 1>>

\* both splits are longer than the context length, so get_batch never raises
SplitsLongEnough == Len(train_data) > block_size /\ Len(val_data) > block_size

\* an evaluation report: eval_iters losses of the train split, then eval_iters
\* losses of the validation split
FullReport(out) ==
  /\ Len(out) = 2
  /\ out[1].split = "train" /\ out[2].split = "val"
  /\ \A s \in 1..2 :
       /\ Len(out[s].mean) = eval_iters
       /\ \A k \in 1..eval_iters : out[s].mean[k].split = out[s].split

C13_ModeSwitch ==
  /\ (est.pc = "loop") => ~training
  /\ \A k \in DOMAIN est.losses : ~est.losses[k].training
  /\ \A s \in DOMAIN est.out : \A k \in DOMAIN est.out[s].mean : ~est.out[s].mean[k].training
  /\ \A s \in DOMAIN losses : \A k \in DOMAIN losses[s].mean : ~losses[s].mean[k].training
  /\ InBody => training
  /\ (tr_pc \in {"zero_grad", "backward", "step"}) => loss.training
  /\ (grad.split # "none") => grad.training

C13_Witness ==
  /\ tr_pc = "step" /\ iter = 1 /\ eval_interval = 1 /\ eval_iters = 2
  /\ grad.split = "train" /\ grad.training /\ grad.params = 1
  /\ Len(losses) = 2 /\ Len(losses[2].mean) = 2
  /\ ~losses[2].mean[2].training

\* C14 as claimed: after construction and the training loop, every forward
\* pass of generate runs with the model in eval mode (dropout the identity),
\* and generate does not change the mode.
C14_GenerateInEvalMode ==
  /\ [](((gen_pc = "loop" /\ gen_k < max_new_tokens) \/ gen_k >= 1) => ~training)
  /\ [][gen_pc = "loop" => training' = training]_vars

\* the two inputs agree on the positions 1..t
AgreeUpTo(t) == \A j \in 1..t : runs[1].idx[j] = runs[2].idx[j]

\* C15: in eval mode and with the same parameters, two inputs of one shape
\* that agree on the positions up to t have the same logits on the positions
\* up to t (and the same activations after every layer).
C15_Causal ==
  (~training /\ val_pc # "idle") =>
    \A t \in 1..Len(runs[1].idx) :
      AgreeUpTo(t) =>
        /\ val_pc # "embed" => \A j \in 1..t : runs[1].x[j] = runs[2].x[j]
        /\ val_pc = "done" =>
             /\ Len(runs[1].logits) = Len(runs[1].idx)
             /\ \A j \in 1..t : runs[1].logits[j] = runs[2].logits[j]

C15_Witness ==
  /\ val_pc = "done" /\ ~training
  /\ Len(runs[1].idx) = 2
  /\ AgreeUpTo(1) /\ runs[1].idx[2] # runs[2].idx[2]
  /\ runs[1].logits[1] = runs[2].logits[1]
  /\ runs[1].logits[2] # runs[2].logits[2]
  /\ runs[1].x[2][1].den > 1

\* C16: when every token of the prompt is a vocabulary index, every token of
\* the running sequence is a vocabulary index after any number of steps (also
\* when the call ends in a fault), and decode of a row of the returned sequence
\* has no lookup failure and gives one symbol per token.
C16_TokensInVocabulary ==
  /\ (gen_pc \notin {"idle", "KeyError"} /\ PromptInVocab) =>
       /\ InRange(idx, vocab_size)
       /\ \A b \in DOMAIN idx : \A t \in DOMAIN idx[b] : idx[b][t] \in DOMAIN itos
  /\ (call.op = "decode" /\ PromptInVocab) =>
       /\ call.fault = "none"
       /\ Len(call.out) = Len(call.arg)
       /\ \A t \in DOMAIN call.out : call.out[t] \in Range(chars)

C16_Witness ==
  /\ call.op = "decode" /\ call.fault = "none" /\ PromptInVocab
  /\ gen_pc = "returned" /\ gen_k = 2 /\ vocab_size = 2
  /\ Len(prompt[1]) = 1
  /\ idx[1][2] = 1 /\ idx[1][3] = 0
  /\ call.out = <<itos[idx[1][1]], itos[1], itos[0]>>

\* C17: the batch whose loss reaches the optimizer was drawn by
\* get_batch('train'): its offsets, and every input and target position, are
\* inside the train range [0, n) of the encoded corpus, and its contents are
\* the corpus' at those positions; validation batches stay in estimate_loss.
FromTrainRange(b) ==
  /\ b.split = "train"
  /\ DOMAIN b.ix = 1..batch_size
  /\ \A i \in 1..batch_size : \A j \in 0..(block_size - 1) :
       /\ b.ix[i] + j >= 0 /\ b.ix[i] + j < n
       /\ b.ix[i] + j + 1 < n

C17_TrainOnly ==
  /\ n = SplitPoint(Len(data))
  /\ (tr_pc \in {"forward", "zero_grad", "backward", "step"}) =>
       /\ FromTrainRange(xb)
       /\ \A i \in 1..batch_size : \A j \in 0..(block_size - 1) :
            /\ xb.x[i][j + 1] = data[xb.ix[i] + j + 1]
            /\ xb.y[i][j + 1] = data[xb.ix[i] + j + 2]
  /\ (tr_pc \in {"zero_grad", "backward", "step"}) => (loss.ix = xb.ix /\ FromTrainRange(loss))
  /\ (tr_pc = "step") => (grad = loss /\ FromTrainRange(grad))
  /\ (grad.split # "none") => FromTrainRange(grad)
  /\ xb.split # "val" /\ loss.split # "val" /\ grad.split # "val"
  /\ (est.X.split = "val") => (~InBody /\ tr_pc \notin {"for", "done"})

C17_Witness ==
  /\ tr_pc = "step" /\ grad.split = "train"
  /\ block_size = 1 /\ Len(data) = 11 /\ n = 9
  /\ grad.ix[1] = 7
  /\ losses # <<>> /\ params = 1

====
